---- MODULE Spec2Model ----
(***************************************************************************)
(* Model of the expense-sharing server (src/server.js): the expense store, *)
(* POST /api/expenses and GET /api/balance.                                *)
(*                                                                         *)
(* Amounts are exact rationals, kept as integers in units of 1/Scale, so   *)
(* that amount / participants.length is exact for every participant count  *)
(* of the model.  IEEE-754 rounding of the JavaScript numbers is not       *)
(* modelled.                                                               *)
(*                                                                         *)
(* A JavaScript object (the accumulator `balances` and each of its rows)   *)
(* is a sequence of [id, val] pairs in key insertion order, which is the   *)
(* order Object.keys enumerates the keys (user ids are not integer-like).  *)
(***************************************************************************)
EXTENDS Integers, Sequences, FiniteSets, Bags, TLC

VARIABLES
    expenses,   \* the Expense collection, a bag of documents
    balances,   \* the accumulator of the balance request last served, else empty
    resp,       \* the response last sent
    payments,   \* the Payment collection, a set of documents
    gateway     \* the gateway's reply to the payment request last served, else none

vars == <<expenses, balances, resp, payments, gateway>>

----------------------------------------------------------------------------
(* Bounds and input sets *)

\* The cap on the number of stored expenses.
MaxExpenses == 2

\* The registered users (the ids the User collection holds).
Users == {"U1", "U2", "U3"}

\* A field the request body does not carry.
Undefined == "undefined"

\* lcm of the participant counts 1..3: one currency unit is Scale model units.
Scale == 2 * 3

\* Participant arrays posted by clients: one or two users, or all three.
SmallParticipantLists ==
    { <<"U1">>, <<"U2">>, <<"U3">>,
      <<"U1", "U2">>, <<"U1", "U3">>, <<"U2", "U3">> }

AllParticipants == <<"U1", "U2", "U3">>

\* The reading of Date.now when an expense is saved, as <<year, month>>.
Dates == { <<2025, 1>> }

\* Request bodies of POST /api/expenses that pass validation: 60 or 100
\* shared by one or two users, or 90 shared by all three; the payer may or
\* may not be a participant ...
ValidBodies ==
    [ description : {"Dinner"}, amountIsNumber : {TRUE}, amount : {60, 100},
      category : {"Food"}, paidBy : Users, participants : SmallParticipantLists ]
    \cup
    [ description : {"Dinner"}, amountIsNumber : {TRUE}, amount : {90},
      category : {"Food"}, paidBy : Users, participants : {AllParticipants} ]

\* ... and bodies that each fail one of its checks.
InvalidBodies ==
    [ description : {""}, amountIsNumber : {TRUE}, amount : {60},
      category : {"Food"}, paidBy : {"U1"}, participants : {<<"U1", "U2">>} ]
    \cup
    [ description : {"Dinner"}, amountIsNumber : {TRUE, FALSE}, amount : {0, -60},
      category : {"Food"}, paidBy : {"U1"}, participants : {<<"U1", "U2">>} ]
    \cup
    [ description : {"Dinner"}, amountIsNumber : {TRUE}, amount : {60},
      category : {"Food"}, paidBy : {Undefined}, participants : {<<"U1", "U2">>} ]
    \cup
    [ description : {"Dinner"}, amountIsNumber : {TRUE}, amount : {60},
      category : {"Food"}, paidBy : {"U1"}, participants : {<<>>} ]
    \cup
    [ description : {"Dinner"}, amountIsNumber : {FALSE}, amount : {60},
      category : {"Food"}, paidBy : {"U1"}, participants : {<<"U1", "U2">>} ]

Bodies == ValidBodies \cup InvalidBodies

----------------------------------------------------------------------------
(* JavaScript objects as insertion-ordered key/value lists *)

EmptyObject == <<>>

\* Object.keys(obj)
Keys(obj) == [ i \in 1..Len(obj) |-> obj[i].id ]

\* k in obj
HasKey(obj, k) == \E i \in 1..Len(obj) : obj[i].id = k

IndexOf(obj, k) == CHOOSE i \in 1..Len(obj) : obj[i].id = k

\* obj[k] || dflt, for a key whose value is never falsy unless it is dflt
GetOr(obj, k, dflt) == IF HasKey(obj, k) THEN obj[IndexOf(obj, k)].val ELSE dflt

\* obj[k] = v
Put(obj, k, v) ==
    IF HasKey(obj, k)
    THEN [ obj EXCEPT ![IndexOf(obj, k)] = [ id |-> k, val |-> v ] ]
    ELSE Append(obj, [ id |-> k, val |-> v ])

Range(s) == { s[i] : i \in 1..Len(s) }

----------------------------------------------------------------------------
(* The Expense collection *)

\* new Expense({...}) with the schema's default date
NewExpense(body, finalCategory, now) ==
    [ description |-> body.description, amount |-> body.amount,
      category |-> finalCategory, paidBy |-> body.paidBy,
      participants |-> body.participants, date |-> now ]

\* A query without the $or filter
MatchesAll(e, userId) == TRUE

\* { $or: [{ paidBy: userId }, { participants: userId }] }
Matches(e, userId) ==
    \/ e.paidBy = userId
    \/ \E i \in 1..Len(e.participants) : e.participants[i] = userId

\* The documents of the collection that the query selects, as a bag.
Visible(store, userId) ==
    LET S == { e \in BagToSet(store) : Matches(e, userId) }
    IN  [ e \in S |-> store[e] ]

\* Expense.find(...) without a sort: the selected documents in any order.
Find(store, userId) ==
    LET b == Visible(store, userId)
        S == DOMAIN b
        n == BagCardinality(b)
    IN  { s \in [1..n -> S] :
            \A e \in S : Cardinality({ i \in 1..n : s[i] = e }) = b[e] }

----------------------------------------------------------------------------
(* GET /api/balance: the accumulation *)

\* expense.amount / expense.participants.length, in units of 1/Scale
AmountPerPerson(expense) == (expense.amount * Scale) \div Len(expense.participants)

\* balances[a] = balances[a] || {}; balances[a][b] = (balances[a][b] || 0) + delta
AddTo(bal, a, b, delta) ==
    LET row == GetOr(bal, a, EmptyObject)
    IN  Put(bal, a, Put(row, b, GetOr(row, b, 0) + delta))

\* The loop body without the payer-side decrement of balances[paidBy][participantId]
VisitParticipantOneSided(bal, expense, participantId) ==
    LET paidBy == expense.paidBy
        amountPerPerson == AmountPerPerson(expense)
    IN  IF paidBy # participantId
        THEN AddTo(bal, participantId, paidBy, amountPerPerson)
        ELSE bal

\* The loop body without the test paidBy !== participantId
VisitParticipantUnguarded(bal, expense, participantId) ==
    LET paidBy == expense.paidBy
        amountPerPerson == AmountPerPerson(expense)
    IN  AddTo(AddTo(bal, participantId, paidBy, amountPerPerson),
              paidBy, participantId, -amountPerPerson)

\* The body of expense.participants.forEach
VisitParticipant(bal, expense, participantId) ==
    LET paidBy == expense.paidBy
        amountPerPerson == AmountPerPerson(expense)
    IN  IF paidBy # participantId
        THEN AddTo(AddTo(bal, participantId, paidBy, amountPerPerson),
                   paidBy, participantId, -amountPerPerson)
        ELSE bal

RECURSIVE VisitParticipants(_, _, _)
VisitParticipants(bal, expense, i) ==
    IF i > Len(expense.participants) THEN bal
    ELSE VisitParticipants(VisitParticipant(bal, expense, expense.participants[i]),
                           expense, i + 1)

\* The body of expenses.forEach
VisitExpense(bal, expense) == VisitParticipants(bal, expense, 1)

RECURSIVE VisitExpenses(_, _, _)
VisitExpenses(bal, exps, i) ==
    IF i > Len(exps) THEN bal
    ELSE VisitExpenses(VisitExpense(bal, exps[i]), exps, i + 1)

\* An accumulator kept at module level, not rebuilt per request
LeakedBalances == balances

\* const balances = {}
FreshBalances == EmptyObject

\* const balances = {}; expenses.forEach(...)
Accumulate(exps) == VisitExpenses(FreshBalances, exps, 1)

----------------------------------------------------------------------------
(* GET /api/balance: the output *)

\* The net position of a against everyone, read in place of balances[a][b]
RECURSIVE RowTotal(_, _)
RowTotal(row, i) == IF i > Len(row) THEN 0 ELSE row[i].val + RowTotal(row, i + 1)

CellOfRowTotal(bal, a, b) == RowTotal(GetOr(bal, a, EmptyObject), 1)

\* b in balances[a]: the cell is not undefined
HasCell(bal, a, b) == HasKey(GetOr(bal, a, EmptyObject), b)

\* balances[a][b] where the cell is defined
Cell(bal, a, b) == GetOr(GetOr(bal, a, EmptyObject), b, 0)

\* balances[a][b] used as a condition: neither undefined nor 0
Truthy(bal, a, b) == HasCell(bal, a, b) /\ Cell(bal, a, b) # 0

\* amount >= 0 in place of amount > 0
NonNegative(amount) == amount >= 0

\* if (amount > 0)
Positive(amount) == amount > 0

InExpense(e, id) ==
    e.paidBy = id \/ \E i \in 1..Len(e.participants) : e.participants[i] = id

\* expenses.find(e => paidBy is id || participants has id).participants.find(p => p is id)
\*   || expenses.find(e => paidBy is id).paidBy
FindUser(exps, id) ==
    LET first == exps[CHOOSE i \in 1..Len(exps) :
                        /\ InExpense(exps[i], id)
                        /\ \A j \in 1..(i - 1) : ~InExpense(exps[j], id)]
    IN  IF \E i \in 1..Len(first.participants) : first.participants[i] = id
        THEN id
        ELSE exps[CHOOSE i \in 1..Len(exps) :
                    /\ exps[i].paidBy = id
                    /\ \A j \in 1..(i - 1) : exps[j].paidBy # id].paidBy

\* Object.keys(balances[userId] || {}).forEach(...): the "owes: true" entries
RECURSIVE OwesLoop(_, _, _, _, _)
OwesLoop(bal, exps, userId, ks, i) ==
    IF i > Len(ks) THEN <<>>
    ELSE LET otherUserId == ks[i]
             amount == Cell(bal, userId, otherUserId)
             rest == OwesLoop(bal, exps, userId, ks, i + 1)
         IN  IF Positive(amount)
             THEN <<[ owes |-> TRUE, amount |-> amount,
                      user |-> FindUser(exps, otherUserId) ]>> \o rest
             ELSE rest

\* Object.keys(balances).forEach(...): the "owes: false" entries
RECURSIVE OwedLoop(_, _, _, _, _)
OwedLoop(bal, exps, userId, ks, i) ==
    IF i > Len(ks) THEN <<>>
    ELSE LET otherUserId == ks[i]
             rest == OwedLoop(bal, exps, userId, ks, i + 1)
         IN  IF otherUserId # userId /\ Truthy(bal, otherUserId, userId)
             THEN LET amount == 0 - Cell(bal, otherUserId, userId)
                  IN  IF Positive(amount)
                      THEN <<[ owes |-> FALSE, amount |-> amount,
                               user |-> FindUser(exps, otherUserId) ]>> \o rest
                      ELSE rest
             ELSE rest

\* formattedBalances after both loops
FormattedBalances(bal, exps, userId) ==
    OwesLoop(bal, exps, userId, Keys(GetOr(bal, userId, EmptyObject)), 1)
    \o OwedLoop(bal, exps, userId, Keys(bal), 1)

----------------------------------------------------------------------------
(* The handlers *)

NoResponse == [ op |-> "none", user |-> Undefined, status |-> 0, body |-> <<>> ]

\* No call to the payment gateway was made
NoReply == [ threw |-> FALSE, errorsCode |-> 0, dataCode |-> 0, authority |-> "" ]

Init ==
    /\ expenses = EmptyBag
    /\ balances = EmptyObject
    /\ resp = NoResponse
    /\ payments = {}
    /\ gateway = NoReply

\* !description || !amount || !paidBy || !participants || participants.length === 0
MissingField(body) ==
    \/ body.description = ""
    \/ (body.amountIsNumber /\ body.amount = 0)
    \/ body.paidBy = Undefined
    \/ Len(body.participants) = 0

\* The amount check without amount <= 0
BadAmountTypeOnly(body) == ~body.amountIsNumber

\* typeof amount !== 'number' || amount <= 0
BadAmount(body) == ~body.amountIsNumber \/ body.amount <= 0

\* category.trim() === ''
Blank(category) == category \in {"", " "}

\* category && category.trim() !== '' ? category : "General"
FinalCategory(category) == IF ~Blank(category) THEN category ELSE "General"

\* POST /api/expenses answered 400: a required field is missing or empty
PostExpenseMissingField(body) ==
    /\ MissingField(body)
    /\ resp' = [ op |-> "postExpense", user |-> Undefined, status |-> 400, body |-> <<>> ]
    /\ balances' = EmptyObject
    /\ gateway' = NoReply
    /\ UNCHANGED <<expenses, payments>>

\* POST /api/expenses answered 400: the amount is not a positive number
PostExpenseBadAmount(body) ==
    /\ ~MissingField(body)
    /\ BadAmount(body)
    /\ resp' = [ op |-> "postExpense", user |-> Undefined, status |-> 400, body |-> <<>> ]
    /\ balances' = EmptyObject
    /\ gateway' = NoReply
    /\ UNCHANGED <<expenses, payments>>

\* POST /api/expenses answered 201: the expense is saved
PostExpenseSaved(body) ==
    /\ BagCardinality(expenses) < MaxExpenses
    /\ ~MissingField(body)
    /\ ~BadAmount(body)
    /\ \E now \in Dates :
         expenses' = expenses (+) SetToBag({NewExpense(body, FinalCategory(body.category), now)})
    /\ resp' = [ op |-> "postExpense", user |-> Undefined, status |-> 201, body |-> <<>> ]
    /\ balances' = EmptyObject
    /\ gateway' = NoReply
    /\ UNCHANGED payments

PostExpense ==
    \E body \in Bodies :
        \/ PostExpenseMissingField(body)
        \/ PostExpenseBadAmount(body)
        \/ PostExpenseSaved(body)

\* populate("paidBy", "username") found the user the document refers to
Populated(e) == e.paidBy \in Users

\* GET /api/balance for the authenticated user
GetBalance(userId) ==
    \E exps \in Find(expenses, userId) :
        /\ \A i \in 1..Len(exps) : Populated(exps[i])
        /\ balances' = Accumulate(exps)
        /\ resp' = [ op |-> "getBalance", user |-> userId, status |-> 200,
                     body |-> FormattedBalances(balances', exps, userId) ]
        /\ gateway' = NoReply
        /\ UNCHANGED <<expenses, payments>>

\* GET /api/balance answered 500: expense.paidBy._id throws on a payer that
\* populate left null, and the catch block answers
GetBalanceFailed(userId) ==
    /\ \E e \in DOMAIN Visible(expenses, userId) : ~Populated(e)
    /\ balances' = EmptyObject
    /\ resp' = [ op |-> "getBalance", user |-> userId, status |-> 500, body |-> <<>> ]
    /\ gateway' = NoReply
    /\ UNCHANGED <<expenses, payments>>

Next ==
    \/ PostExpense
    \/ \E userId \in Users : GetBalance(userId)

Spec == Init /\ [][Next]_vars

----------------------------------------------------------------------------
(* The balance computation over any documents the Expense schema admits *)

\* A stored expense of the default description, category and date.
Shared(amount, paidBy, participants) ==
    [ description |-> "Dinner", amount |-> amount, category |-> "Food",
      paidBy |-> paidBy, participants |-> participants, date |-> <<2025, 1>> ]

\* Documents of the collection: the schema requires an amount and a payer and
\* constrains neither the sign of the amount, nor the length of participants,
\* nor that the payer is a registered user.
EngineDocs ==
    { Shared(60, "U1", <<"U1", "U2">>), Shared(100, "U2", <<"U1", "U2">>),
      Shared(90, "U3", AllParticipants),
      Shared(60, "U1", <<>>), Shared(60, "U2", <<>>),
      Shared(0, "U1", <<"U1", "U2">>), Shared(-60, "U2", <<"U1", "U2">>),
      Shared(60, "U9", <<"U1">>) }

RECURSIVE BagOfSeq(_)
BagOfSeq(s) == IF s = <<>> THEN EmptyBag ELSE SetToBag({Head(s)}) (+) BagOfSeq(Tail(s))

InitEngine ==
    /\ \E s \in UNION { [1..n -> EngineDocs] : n \in 0..MaxExpenses } :
         expenses = BagOfSeq(s)
    /\ balances = EmptyObject
    /\ resp = NoResponse
    /\ payments = {}
    /\ gateway = NoReply

NextEngine ==
    \/ \E userId \in Users : GetBalance(userId)
    \/ \E userId \in Users : GetBalanceFailed(userId)

SpecEngine == InitEngine /\ [][NextEngine]_vars

----------------------------------------------------------------------------
(* GET /api/stats *)

\* { $limit: 12 }
MonthLimit == 12

\* { $group: { _id: "$<field>", total: { $sum: "$amount" }, count: { $sum: 1 } } }
\* over the documents S of the bag: the accumulators, keyed by the group key
RECURSIVE GroupFold(_, _, _, _)
GroupFold(store, S, field, acc) ==
    IF S = {} THEN acc
    ELSE LET e == CHOOSE x \in S : TRUE
             k == e[field]
             prev == IF k \in DOMAIN acc THEN acc[k] ELSE [ total |-> 0, count |-> 0 ]
             next == [ total |-> prev.total + store[e] * e.amount,
                       count |-> prev.count + store[e] ]
         IN  GroupFold(store, S \ {e}, field,
                       [ x \in DOMAIN acc \cup {k} |-> IF x = k THEN next ELSE acc[x] ])

\* $match with the $or filter, then $group
Group(store, userId, field) ==
    LET b == Visible(store, userId)
    IN  GroupFold(b, DOMAIN b, field, <<>>)

\* The documents the category pipeline yields
CategoryGroups(store, userId) ==
    LET g == Group(store, userId, "category")
    IN  { [ _id |-> k, total |-> g[k].total, count |-> g[k].count ] : k \in DOMAIN g }

\* The documents the monthly $group yields: _id is { year: $year, month: $month }
MonthGroups(store, userId) ==
    LET g == Group(store, userId, "date")
    IN  { [ _id |-> [ year |-> k[1], month |-> k[2] ], total |-> g[k].total ] :
            k \in DOMAIN g }

\* A sort by ascending year and month
SortsBeforeAscending(a, b) ==
    a.year < b.year \/ (a.year = b.year /\ a.month < b.month)

\* { $sort: { "_id.year": -1, "_id.month": -1 } }: a comes before b
SortsBefore(a, b) ==
    a.year > b.year \/ (a.year = b.year /\ a.month > b.month)

RECURSIVE Sort(_)
Sort(S) ==
    IF S = {} THEN <<>>
    ELSE LET first == CHOOSE x \in S : \A y \in S \ {x} : SortsBefore(x._id, y._id)
         IN  <<first>> \o Sort(S \ {first})

\* { $limit: n }
Limit(seq, n) == IF Len(seq) <= n THEN seq ELSE SubSeq(seq, 1, n)

\* The documents of a set in any order: $group fixes no order of its output
AnyOrder(S) ==
    { seq \in [1..Cardinality(S) -> S] : \A i, j \in 1..Cardinality(S) : seq[i] = seq[j] => i = j }

\* GET /api/stats for the authenticated user
GetStats(userId) ==
    /\ \E expensesByCategory \in AnyOrder(CategoryGroups(expenses, userId)) :
         resp' = [ op |-> "getStats", user |-> userId, status |-> 200,
                   body |-> [ expensesByCategory |-> expensesByCategory,
                              monthlyExpenses |->
                                  Limit(Sort(MonthGroups(expenses, userId)), MonthLimit) ] ]
    /\ balances' = EmptyObject
    /\ gateway' = NoReply
    /\ UNCHANGED <<expenses, payments>>

\* Request bodies with several categories, blank ones among them.
StatsBodies ==
    [ description : {"Dinner"}, amountIsNumber : {TRUE}, amount : {20, 40, 60},
      category : {"", " ", "Food", "Travel"}, paidBy : {"U1", "U2"},
      participants : {<<"U1">>, <<"U2", "U3">>} ]

PostStatsExpense ==
    \E body \in StatsBodies \cup InvalidBodies :
        \/ PostExpenseMissingField(body)
        \/ PostExpenseBadAmount(body)
        \/ PostExpenseSaved(body)

\* The month i - 1 months before January 2025, as <<year, month>>
MonthsBack(i) == <<2025 - (i + 10) \div 12, 12 - ((i + 10) % 12)>>

\* One expense of U1 and U2 in each of the last n months, Travel and Food in
\* turn, of 20, 40 or 60
History(n) ==
    BagOfSeq([ i \in 1..n |->
        [ description |-> "Rent", amount |-> 20 * (1 + (i % 3)),
          category |-> IF i % 2 = 1 THEN "Travel" ELSE "Food",
          paidBy |-> "U1", participants |-> <<"U1", "U2">>, date |-> MonthsBack(i) ] ])

\* A further expense in month i, of U1 alone or of U3 alone
Extra(kind, i) ==
    IF kind = "none" \/ i = 0 THEN EmptyBag
    ELSE SetToBag({ [ description |-> "Trip", amount |-> 40, category |-> "Food",
                      paidBy |-> kind, participants |-> <<kind>>, date |-> MonthsBack(i) ] })

\* Collections left by earlier requests: histories shorter than, as long as
\* and longer than the limit
HistoryLengths == {0, 1, 11, 12, 13, 14}

SeedStores ==
    { History(n) (+) Extra(newest, 1) (+) Extra(oldest, 14) :
        n \in HistoryLengths, newest \in {"none", "U1", "U3"},
        oldest \in {"none", "U1", "U3"} }

InitStats ==
    /\ expenses \in SeedStores
    /\ balances = EmptyObject
    /\ resp = NoResponse
    /\ payments = {}
    /\ gateway = NoReply

NextStats ==
    \/ PostStatsExpense
    \/ \E userId \in Users : GetStats(userId)

SpecStats == InitStats /\ [][NextStats]_vars

----------------------------------------------------------------------------
(* POST /api/payments *)

\* The cap on the number of stored payments.
MaxPayments == 2

\* Authority codes the gateway issues.
Authorities == {"A1", "A2", "A3"}

\* Outcomes of axios.post(ZARINPAL_REQUEST_URL, ...): the call throws (no
\* connection, a status outside 2xx), or it returns data.errors.code (0 when
\* errors has no code), data.data.code and data.data.authority.
GatewayReplies ==
    [ threw : {FALSE}, errorsCode : {0}, dataCode : {100}, authority : Authorities \cup {""} ]
    \cup
    [ threw : {FALSE}, errorsCode : {-9}, dataCode : {0}, authority : {""} ]
    \cup
    [ threw : {FALSE}, errorsCode : {0}, dataCode : {101}, authority : {"A1"} ]
    \cup
    [ threw : {FALSE}, errorsCode : {-9}, dataCode : {100}, authority : {"A1"} ]
    \cup
    [ threw : {TRUE}, errorsCode : {0}, dataCode : {0}, authority : {""} ]

\* Request bodies of POST /api/payments
PaymentBodies == [ toUserId : {"U1", "U2", Undefined}, amount : {20} ]

\* The test without data.data.code !== 100
GatewayRejectedErrorsOnly(reply) == reply.errorsCode # 0

\* data.errors.code || data.data.code !== 100
GatewayRejected(reply) == reply.errorsCode # 0 \/ reply.dataCode # 100

\* new Payment({ from, to, amount, authority, status: "pending" })
NewPayment(fromUserId, body, authority) ==
    [ from |-> fromUserId, to |-> body.toUserId, amount |-> body.amount,
      authority |-> authority, status |-> "pending" ]

\* newPayment.save() throws: `to` and `authority` are required and
\* `authority` is unique
SaveFails(body, authority) ==
    \/ body.toUserId = Undefined
    \/ authority = ""
    \/ \E p \in payments : p.authority = authority

PaymentResponse(fromUserId, status, body) ==
    [ op |-> "postPayment", user |-> fromUserId, status |-> status, body |-> body ]

\* POST /api/payments answered 500: the call to the gateway throws
PostPaymentThrew(fromUserId, body, reply) ==
    /\ reply.threw
    /\ gateway' = reply
    /\ resp' = PaymentResponse(fromUserId, 500, <<>>)
    /\ balances' = EmptyObject
    /\ UNCHANGED <<expenses, payments>>

\* POST /api/payments answered 400: the gateway did not accept the request
PostPaymentRejected(fromUserId, body, reply) ==
    /\ ~reply.threw
    /\ GatewayRejected(reply)
    /\ gateway' = reply
    /\ resp' = PaymentResponse(fromUserId, 400, <<>>)
    /\ balances' = EmptyObject
    /\ UNCHANGED <<expenses, payments>>

\* POST /api/payments answered 500: the gateway accepted, save() throws
PostPaymentSaveFailed(fromUserId, body, reply) ==
    /\ ~reply.threw
    /\ ~GatewayRejected(reply)
    /\ SaveFails(body, reply.authority)
    /\ gateway' = reply
    /\ resp' = PaymentResponse(fromUserId, 500, <<>>)
    /\ balances' = EmptyObject
    /\ UNCHANGED <<expenses, payments>>

\* POST /api/payments answered 201 with the payment URL of the authority
PostPaymentSaved(fromUserId, body, reply) ==
    /\ Cardinality(payments) < MaxPayments
    /\ ~reply.threw
    /\ ~GatewayRejected(reply)
    /\ ~SaveFails(body, reply.authority)
    /\ gateway' = reply
    /\ payments' = payments \cup {NewPayment(fromUserId, body, reply.authority)}
    /\ resp' = PaymentResponse(fromUserId, 201, <<reply.authority>>)
    /\ balances' = EmptyObject
    /\ UNCHANGED expenses

PostPayment ==
    \E fromUserId \in Users, body \in PaymentBodies, reply \in GatewayReplies :
        \/ PostPaymentThrew(fromUserId, body, reply)
        \/ PostPaymentRejected(fromUserId, body, reply)
        \/ PostPaymentSaveFailed(fromUserId, body, reply)
        \/ PostPaymentSaved(fromUserId, body, reply)

\* Expenses between U1 and U2, and a request without a description.
SettlingBodies ==
    [ description : {"Dinner", ""}, amountIsNumber : {TRUE}, amount : {60},
      category : {"Food"}, paidBy : {"U1", "U2"}, participants : {<<"U1", "U2">>} ]
    \cup
    [ description : {"Dinner"}, amountIsNumber : {FALSE}, amount : {60},
      category : {"Food"}, paidBy : {"U1"}, participants : {<<"U1", "U2">>} ]

PostSettlingExpense ==
    \E body \in SettlingBodies :
        \/ PostExpenseMissingField(body)
        \/ PostExpenseBadAmount(body)
        \/ PostExpenseSaved(body)

NextPayments ==
    \/ PostSettlingExpense
    \/ \E userId \in Users : GetBalance(userId)
    \/ PostPayment

SpecPayments == Init /\ [][NextPayments]_vars

----------------------------------------------------------------------------
(* Notions the properties are stated in *)

\* What a owes b over the stored expenses: a's shares of the expenses b paid.
RECURSIVE OwedShares(_, _, _, _)
OwedShares(store, S, a, b) ==
    IF S = {} THEN 0
    ELSE LET e == CHOOSE x \in S : TRUE
             n == Cardinality({ i \in 1..Len(e.participants) : e.participants[i] = a })
         IN  (IF e.paidBy = b /\ a # b
              THEN store[e] * n * ((e.amount * Scale) \div Len(e.participants))
              ELSE 0)
             + OwedShares(store, S \ {e}, a, b)

\* The net standing of a against b: positive when a is the net debtor.
Net(store, a, b) ==
    OwedShares(store, DOMAIN store, a, b) - OwedShares(store, DOMAIN store, b, a)

\* Every output GET /api/balance can give userId over the stored expenses.
BalanceOutputs(store, userId) ==
    { FormattedBalances(Accumulate(exps), exps, userId) : exps \in Find(store, userId) }

BalanceAnswered == resp.op = "getBalance"

Entry(owes, amount, user) == [ owes |-> owes, amount |-> amount * Scale, user |-> user ]

----------------------------------------------------------------------------
(* Properties *)

\* C1: every counterparty whose net standing against the requesting user is
\* nonzero has an entry in that user's balance output, whether the user is
\* the net debtor or the net creditor.
C1_Completeness ==
    BalanceAnswered =>
        \A c \in Users \ {resp.user} :
            Net(expenses, resp.user, c) # 0 =>
                \E i \in 1..Len(resp.body) : resp.body[i].user = c

\* C2: no counterparty appears in more than one entry of a balance output.
C2_Uniqueness ==
    BalanceAnswered =>
        \A i, j \in 1..Len(resp.body) :
            i # j => resp.body[i].user # resp.body[j].user

\* C3: an "owes" entry for c carries the positive net the user owes c, an
\* "is owed" entry for c carries the positive net c owes the user; for the one
\* expense {100, U1, [U1, U2]} U2 gets "owes U1 50" and U1 "is owed by U2 50".
C3_Orientation ==
    BalanceAnswered =>
        /\ \A i \in 1..Len(resp.body) :
             LET en == resp.body[i]
             IN  IF en.owes
                 THEN en.amount > 0 /\ en.amount = Net(expenses, resp.user, en.user)
                 ELSE en.amount > 0 /\ en.amount = Net(expenses, en.user, resp.user)
        /\ expenses = SetToBag({Shared(100, "U1", <<"U1", "U2">>)}) =>
             /\ resp.user = "U2" => resp.body = <<Entry(TRUE, 50, "U1")>>
             /\ resp.user = "U1" => resp.body = <<Entry(FALSE, 50, "U2")>>

C5_Symmetry ==
    BalanceAnswered =>
        \A i \in 1..Len(resp.body) :
            resp.body[i].owes =>
                \A out \in BalanceOutputs(expenses, resp.body[i].user) :
                    [ owes |-> FALSE, amount |-> resp.body[i].amount,
                      user |-> resp.user ] \in Range(out)

\* owes:false total minus owes:true total of one output
RECURSIVE Position(_, _)
Position(out, i) ==
    IF i > Len(out) THEN 0
    ELSE (IF out[i].owes THEN 0 - out[i].amount ELSE out[i].amount)
         + Position(out, i + 1)

RECURSIVE SumPositions(_, _)
SumPositions(outs, S) ==
    IF S = {} THEN 0
    ELSE LET u == CHOOSE x \in S : TRUE
         IN  Position(outs[u], 1) + SumPositions(outs, S \ {u})

\* C6: over the same stored expenses, the sum over all users of (total of the
\* owes:false amounts minus total of the owes:true amounts of the user's
\* output) is zero.
C6_Conservation ==
    BalanceAnswered =>
        LET others == Users \ {resp.user}
            all == UNION { BalanceOutputs(expenses, u) : u \in others }
        IN  \A outs \in [others -> all] :
                (\A u \in others : outs[u] \in BalanceOutputs(expenses, u))
                => Position(resp.body, 1) + SumPositions(outs, others) = 0

\* A balance response with entries, over expenses that involve all three users.
C6_Witness ==
    /\ BalanceAnswered
    /\ Len(resp.body) > 0
    /\ \A u \in Users : BagCardinality(Visible(expenses, u)) > 0

\* C7: when the accumulated net amount between the user and a counterparty is
\* exactly 0, the user's output has no entry for that counterparty.
C7_SettledSuppressed ==
    BalanceAnswered =>
        \A c \in Users \ {resp.user} :
            Cell(balances, resp.user, c) = 0 =>
                /\ \A i \in 1..Len(resp.body) : resp.body[i].user # c
                /\ \A out \in BalanceOutputs(expenses, c) :
                     \A i \in 1..Len(out) : out[i].user # resp.user

\* A balance response over shares owed in both directions that cancel.
C7_Witness ==
    /\ BalanceAnswered
    /\ \E c \in Users \ {resp.user} :
         /\ HasCell(balances, resp.user, c) /\ Cell(balances, resp.user, c) = 0
         /\ HasCell(balances, c, resp.user) /\ Cell(balances, c, resp.user) = 0

\* C8: the accumulator never records a (payer, payer) edge and no output has
\* an entry whose counterparty is the requesting user.
C8_NoSelfEntries ==
    BalanceAnswered =>
        /\ \A u \in Users : ~HasCell(balances, u, u)
        /\ \A i \in 1..Len(resp.body) : resp.body[i].user # resp.user

\* A balance response with entries for a user who is payer and sole participant
\* of one expense and shares another with its payer.
C8_Witness ==
    /\ BalanceAnswered
    /\ \E e \in DOMAIN expenses : e.paidBy = resp.user /\ e.participants = <<resp.user>>
    /\ \E e \in DOMAIN expenses :
         /\ e.paidBy # resp.user
         /\ {e.paidBy, resp.user} \subseteq Range(e.participants)
    /\ Len(resp.body) > 0

Abs(x) == IF x < 0 THEN 0 - x ELSE x

Involves(e, u) == e.paidBy = u \/ u \in Range(e.participants)

\* Every entry of the output is for a counterparty with a nonzero net standing
\* against the requesting user, and its amount is that net: what two other
\* users owe each other produces no entry and changes no amount.
C9_OnlyOwnDebts ==
    BalanceAnswered =>
        \A i \in 1..Len(resp.body) :
            LET n == Net(expenses, resp.user, resp.body[i].user)
            IN  n # 0 /\ resp.body[i].amount = Abs(n)

\* Saving an expense that does not involve u leaves u's outputs as they were.
C9_UnrelatedExpenseIgnored ==
    \A u \in Users :
        (/\ expenses' # expenses
         /\ \A e \in DOMAIN expenses' :
              CopiesIn(e, expenses') > CopiesIn(e, expenses) => ~Involves(e, u))
        => BalanceOutputs(expenses', u) = BalanceOutputs(expenses, u)

\* C9: a user's balance output depends only on the expenses the user is payer
\* or participant of, and within them only on the user's own debts.
C9_NonInterference == []C9_OnlyOwnDebts /\ [][C9_UnrelatedExpenseIgnored]_vars

\* A balance response with entries, over one expense that does not involve
\* the user and one visible expense that also records a debt between two
\* other users.
C9_Witness ==
    /\ BalanceAnswered
    /\ Len(resp.body) > 0
    /\ \E e \in DOMAIN expenses : ~Involves(e, resp.user)
    /\ \E e \in DOMAIN expenses :
         /\ Involves(e, resp.user)
         /\ \E p \in Range(e.participants) : p # resp.user /\ p # e.paidBy /\ e.paidBy # resp.user

\* C10: every balance computation for the same user over the same stored
\* expenses, in whatever order the expenses are processed and whatever was
\* requested before, yields the same set of entries.
C10_SameSnapshotSameEntries ==
    BalanceAnswered =>
        \A out \in BalanceOutputs(expenses, resp.user) : Range(out) = Range(resp.body)

\* Two balance requests of the same user in a row, with nothing saved in
\* between, are answered with the same set of entries.
C10_RepeatedRequest ==
    (/\ BalanceAnswered
     /\ resp'.op = "getBalance"
     /\ resp'.user = resp.user
     /\ expenses' = expenses)
    => Range(resp'.body) = Range(resp.body)

Malformed(e) == Len(e.participants) = 0 \/ e.amount <= 0

\* C11: a balance request whose expense set holds an expense with zero
\* participants or a non-positive amount is answered with an error, not with
\* a balance list for the rest.
C11_FailClosed ==
    (/\ resp.op = "getBalance"
     /\ \E e \in DOMAIN Visible(expenses, resp.user) : Malformed(e))
    => resp.status # 200

\* Every stored expense has a positive amount, a payer and participants.
C12_StoreWellFormed ==
    \A e \in DOMAIN expenses :
        e.amount > 0 /\ e.paidBy # Undefined /\ Len(e.participants) > 0

\* A request body with no payer, no participants or an amount that is not a
\* positive number
MalformedBody(body) ==
    \/ body.paidBy = Undefined
    \/ Len(body.participants) = 0
    \/ ~body.amountIsNumber
    \/ body.amount <= 0

\* Such a request can only be answered with an error.
C12_MalformedRejected ==
    \A body \in Bodies :
        MalformedBody(body) =>
            /\ ~ENABLED PostExpenseSaved(body)
            /\ ENABLED (PostExpenseMissingField(body) \/ PostExpenseBadAmount(body))

\* A request answered 400 leaves the store as it was, and whatever is added
\* to the store is added by a request answered 201.
C12_RejectedLeavesStore ==
    /\ (resp'.op = "postExpense" /\ resp'.status = 400) => expenses' = expenses
    /\ expenses' # expenses => (resp'.op = "postExpense" /\ resp'.status = 201)

\* C12: after any sequence of POST /api/expenses requests every stored
\* expense has amount > 0, a payer and a non-empty participants list; a
\* request without payer, without participants or with a non-positive or
\* non-numeric amount is answered with an error and leaves the store unchanged.
C12_CreationBoundary ==
    /\ []C12_StoreWellFormed
    /\ []C12_MalformedRejected
    /\ [][C12_RejectedLeavesStore]_vars

\* A rejected request after expenses were stored.
C12_Witness ==
    /\ BagCardinality(expenses) > 0
    /\ resp.op = "postExpense"
    /\ resp.status = 400

StatsAnswered == resp.op = "getStats"

\* The amounts of the stored expenses that involve u and satisfy the test
\* field = value, summed.
RECURSIVE SumWhere(_, _, _, _, _)
SumWhere(store, S, u, field, value) ==
    IF S = {} THEN 0
    ELSE LET e == CHOOSE x \in S : TRUE
         IN  (IF Involves(e, u) /\ e[field] = value THEN store[e] * e.amount ELSE 0)
             + SumWhere(store, S \ {e}, u, field, value)

VisibleDocs(u) == { e \in DOMAIN expenses : Involves(e, u) }

\* C13: the category statistics of a user have exactly one entry per category
\* occurring among the user's visible expenses, with the sum of the amounts
\* of the visible expenses of that category as total.
C13_CategoryTotals ==
    StatsAnswered =>
        LET out == resp.body.expensesByCategory
            cats == { e.category : e \in VisibleDocs(resp.user) }
        IN  /\ \A c \in cats : Cardinality({ i \in 1..Len(out) : out[i]._id = c }) = 1
            /\ \A i \in 1..Len(out) :
                 /\ out[i]._id \in cats
                 /\ out[i].total =
                      SumWhere(expenses, DOMAIN expenses, resp.user, "category", out[i]._id)

\* Statistics over two categories, one of them with several visible expenses
\* and more than one amount, while the store also holds an expense the user
\* does not see.
C13_Witness ==
    /\ StatsAnswered
    /\ Len(resp.body.expensesByCategory) >= 2
    /\ \E e1, e2 \in VisibleDocs(resp.user) :
         e1.category = e2.category /\ e1.amount # e2.amount
    /\ \E e \in DOMAIN expenses : ~Involves(e, resp.user)

Later(a, b) == a[1] > b[1] \/ (a[1] = b[1] /\ a[2] > b[2])

\* C14: the monthly statistics have at most 12 entries, for exactly the most
\* recent (year, month) buckets of the user's visible expenses, each with the
\* sum of the amounts of its bucket, in strictly descending order.
C14_MonthlyTotals ==
    StatsAnswered =>
        LET out == resp.body.monthlyExpenses
            buckets == { e.date : e \in VisibleDocs(resp.user) }
            Id(i) == <<out[i]._id.year, out[i]._id.month>>
        IN  /\ Len(out) <= 12
            /\ \A b \in buckets :
                 (\E i \in 1..Len(out) : Id(i) = b)
                 <=> Cardinality({ c \in buckets : Later(c, b) }) < 12
            /\ \A i \in 1..Len(out) :
                 /\ Id(i) \in buckets
                 /\ out[i].total = SumWhere(expenses, DOMAIN expenses, resp.user, "date", Id(i))
            /\ \A i \in 1..(Len(out) - 1) : Later(Id(i), Id(i + 1))

\* Statistics over more than 12 months across two changes of year, with two
\* visible expenses in the newest month, which is listed, and in the oldest
\* month, which is not.
C14_Witness ==
    /\ StatsAnswered
    /\ Len(resp.body.monthlyExpenses) = 12
    /\ Cardinality({ e.date : e \in VisibleDocs(resp.user) }) > 12
    /\ \E e1, e2 \in VisibleDocs(resp.user) :
         /\ e1 # e2 /\ e1.date = e2.date
         /\ \A e \in VisibleDocs(resp.user) : ~Later(e1.date, e.date)
    /\ \E e1, e2 \in VisibleDocs(resp.user) :
         /\ e1 # e2 /\ e1.date = e2.date
         /\ \A e \in VisibleDocs(resp.user) : ~Later(e.date, e1.date)

\* The accumulator after the first k expenses of the list
Prefix(exps, k) == VisitExpenses(FreshBalances, SubSeq(exps, 1, k), 1)

AntiSymmetric(bal) ==
    \A a, b \in Users :
        a # b =>
            /\ HasCell(bal, a, b) <=> HasCell(bal, b, a)
            /\ Cell(bal, a, b) = 0 - Cell(bal, b, a)

\* C15: after any prefix of the expense list of a balance request, in
\* whatever order the list is, balances[a][b] = -balances[b][a] for all
\* distinct users a and b, and one cell exists exactly when the other does.
C15_AntiSymmetry ==
    BalanceAnswered =>
        /\ AntiSymmetric(balances)
        /\ \A exps \in Find(expenses, resp.user) :
             \A k \in 0..Len(exps) : AntiSymmetric(Prefix(exps, k))

\* A balance request over two expenses that leave a nonzero cell.
C15_Witness ==
    /\ BalanceAnswered
    /\ BagCardinality(Visible(expenses, resp.user)) > 1
    /\ \E a, b \in Users : a # b /\ Cell(balances, a, b) > 0

\* Every stored payment is pending.
C16_AllPending == \A p \in payments : p.status = "pending"

Accepted(reply) == ~reply.threw /\ reply.errorsCode = 0 /\ reply.dataCode = 100

\* Stored payments stay as they are; a payment is added only on a reply of
\* the gateway with code 100 and no error, as a pending record of that
\* reply's authority; a payment request the gateway did not accept adds
\* none; stored expenses stay as they are and a payment request adds none;
\* storing a payment leaves every user's balance outputs as they were.
C16_PaymentStep ==
    /\ payments \subseteq payments'
    /\ payments' # payments =>
         /\ Accepted(gateway')
         /\ \E p \in payments' \ payments :
              /\ payments' = payments \cup {p}
              /\ p.status = "pending"
              /\ p.authority = gateway'.authority
    /\ (resp'.op = "postPayment" /\ ~Accepted(gateway')) => payments' = payments
    /\ expenses \sqsubseteq expenses'
    /\ resp'.op = "postPayment" => expenses' = expenses
    /\ payments' # payments =>
         \A u \in Users : BalanceOutputs(expenses', u) = BalanceOutputs(expenses, u)

\* C16: a Payment record is stored only after the gateway accepted the
\* request (code 100), always as pending; none is stored when the gateway
\* reports an error or the call fails; no operation changes a stored payment
\* or, with a payment request, an expense or a balance output.
C16_PaymentLifecycle == []C16_AllPending /\ [][C16_PaymentStep]_vars

\* A payment request that failed after a payment was stored, while U1 and U2
\* share an expense.
C16_Witness ==
    /\ payments # {}
    /\ resp.op = "postPayment"
    /\ resp.status # 201
    /\ \E u \in Users : \E out \in BalanceOutputs(expenses, u) : Len(out) > 0

====
